---- MODULE Spec2Model ----
(***************************************************************************)
(* Model of enhanced_server.py: the codebase ingestion pipeline            *)
(* (CodebaseIngestion), the context serializer (ContextManager) and the    *)
(* load_codebase branch of handle_tool_call with its process-wide session. *)
(***************************************************************************)
EXTENDS Integers, Sequences, FiniteSets, TLC

(***************************************************************************)
(* Python floats.  relevance_score is an IEEE-754 double obtained by a     *)
(* chain of multiplications, so equal rational products may differ in the  *)
(* last bit.  A double is modelled exactly: a 53-bit mantissa held in five *)
(* little-endian limbs of 13 bits and a binary exponent; value = m * 2^e.  *)
(***************************************************************************)
LimbBase == 2 ^ 13

RECURSIVE Carry(_, _, _)
\* Propagate carries through column sums, least significant limb first.
Carry(cols, i, c) ==
    IF i > Len(cols)
    THEN IF c = 0 THEN <<>> ELSE <<c>>
    ELSE LET t == cols[i] + c
         IN  <<t % LimbBase>> \o Carry(cols, i + 1, t \div LimbBase)

\* Bit j (counted from 0) of a limb sequence.
BitAt(v, j) ==
    IF j \div 13 + 1 > Len(v) THEN 0
    ELSE (v[j \div 13 + 1] \div (2 ^ (j % 13))) % 2

\* TRUE iff some bit of v below bit j is set.
AnyBelow(v, j) ==
    \/ \E i \in 1..Len(v) : i <= j \div 13 /\ v[i] # 0
    \/ (j \div 13 + 1 <= Len(v) /\ v[j \div 13 + 1] % (2 ^ (j % 13)) # 0)

RECURSIVE ShrFrom(_, _, _)
\* Limbs i.. of v shifted right by s bits (the bits shifted out are dropped).
ShrFrom(v, s, i) ==
    LET q == s \div 13
        r == s % 13
    IN  IF q + i > Len(v) THEN <<>>
        ELSE <<(v[q + i] \div (2 ^ r))
               + (IF q + i < Len(v) THEN (v[q + i + 1] % (2 ^ r)) * (2 ^ (13 - r)) ELSE 0)>>
             \o ShrFrom(v, s, i + 1)

\* v / 2^s rounded to nearest, ties to even.
ShiftRound(v, s) ==
    LET f  == IF s = 0 THEN v ELSE ShrFrom(v, s, 1) \o <<0>>
        g  == IF s = 0 THEN 0 ELSE BitAt(v, s - 1)
        st == s > 1 /\ AnyBelow(v, s - 1)
    IN  IF g = 1 /\ (st \/ f[1] % 2 = 1)
        THEN Carry(<<f[1] + 1>> \o Tail(f), 1, 0)
        ELSE f

RECURSIVE ColSum(_, _, _, _)
\* Sum of the limb products a[i] * b[k + 1 - i] that land in column k.
ColSum(a, b, k, i) ==
    IF i > Len(a) THEN 0
    ELSE (IF k + 1 - i \in 1..Len(b) THEN a[i] * b[k + 1 - i] ELSE 0)
         + ColSum(a, b, k, i + 1)

RECURSIVE Cols(_, _, _)
Cols(a, b, k) ==
    IF k > Len(a) + Len(b) - 1 THEN <<>>
    ELSE <<ColSum(a, b, k, 1)>> \o Cols(a, b, k + 1)

\* Long multiplication of two limb sequences.
MulLimbs(a, b) == Carry(Cols(a, b, 1), 1, 0)

RECURSIVE BitLen(_)
\* Number of significant bits of a natural number below LimbBase.
BitLen(n) == IF n = 0 THEN 0 ELSE 1 + BitLen(n \div 2)

\* Number of significant bits of a limb sequence.
Bits(v) ==
    LET nz == {i \in 1..Len(v) : v[i] # 0}
    IN  IF nz = {} THEN 0
        ELSE LET top == CHOOSE i \in nz : \A j \in nz : j <= i
             IN  13 * (top - 1) + BitLen(v[top])

\* Pad or cut a limb sequence to exactly five limbs.
Limbs5(v) == SubSeq(v \o <<0, 0, 0, 0, 0>>, 1, 5)

\* Round an exact positive value v * 2^e to the nearest double (v has at
\* least 53 significant bits wherever the program's arithmetic uses it).
ToDouble(v, e) ==
    LET s == Bits(v) - 53
        r == IF s > 0 THEN ShiftRound(v, s) ELSE v
    IN  IF Bits(r) = 54
        THEN [m |-> Limbs5(ShrFrom(r, 1, 1)), e |-> e + s + 1]
        ELSE [m |-> Limbs5(r), e |-> e + s]

RECURSIVE DivSmall(_, _, _, _)
\* Long division of a limb sequence by a small divisor d, most significant
\* limb first; returns the quotient limbs (little-endian) and the remainder.
DivSmall(v, d, i, r) ==
    IF i = 0
    THEN [q |-> <<>>, r |-> r]
    ELSE LET cur  == r * LimbBase + v[i]
             rest == DivSmall(v, d, i - 1, cur % d)
         IN  [q |-> rest.q \o <<cur \div d>>, r |-> rest.r]

\* The double denoted by a decimal literal k/10 (1.2 is Tenths(12)).
Tenths(k) ==
    LET num == <<0, 0, 0, 0, 0, k>>          \* k * 2^65
        d   == DivSmall(num, 10, 6, 0)
        \* keep one sticky bit below the quotient so rounding sees the remainder
        v   == Carry(<<2 * d.q[1] + (IF d.r # 0 THEN 1 ELSE 0), 2 * d.q[2], 2 * d.q[3],
                       2 * d.q[4], 2 * d.q[5], 2 * d.q[6]>>, 1, 0)
    IN  ToDouble(v, -66)

\* x * y in double arithmetic.
DMul(x, y) == ToDouble(MulLimbs(x.m, y.m), x.e + y.e)

RECURSIVE LimbsLess(_, _, _)
LimbsLess(a, b, i) ==
    IF i = 0 THEN FALSE
    ELSE IF a[i] # b[i] THEN a[i] < b[i]
    ELSE LimbsLess(a, b, i - 1)

\* x < y for positive doubles.
DLess(x, y) == x.e < y.e \/ (x.e = y.e /\ LimbsLess(x.m, y.m, 5))

\* format(x, '.2f') as a number of hundredths: x * 100 rounded to nearest,
\* ties to even, on the exact binary value.
Fmt2(x) ==
    LET v == MulLimbs(x.m, <<100>>)
        r == ShiftRound(v, 0 - x.e)
    IN  r[1] + LimbBase * r[2]

\* The doubles of the literals 0.5, 0.6, ..., 1.5 that the scoring uses.
Weight == [k \in 5..15 |-> Tenths(k)]

(***************************************************************************)
(* Python str operations used on paths and file names.                     *)
(***************************************************************************)
\* sub in s
Contains(sub, s) ==
    \E i \in 1..(Len(s) - Len(sub) + 1) : SubSeq(s, i, i + Len(sub) - 1) = sub

\* s.startswith(pre)
StartsWith(s, pre) == Len(pre) <= Len(s) /\ SubSeq(s, 1, Len(pre)) = pre

\* s.endswith(suf)
EndsWith(s, suf) ==
    Len(suf) <= Len(s) /\ SubSeq(s, Len(s) - Len(suf) + 1, Len(s)) = suf

\* Positions of character c in s.
Positions(s, c) == {i \in 1..Len(s) : SubSeq(s, i, i) = c}

\* s.rfind(c) counted from 1; 0 when c does not occur.
RFind(s, c) ==
    IF Positions(s, c) = {} THEN 0
    ELSE CHOOSE i \in Positions(s, c) : \A j \in Positions(s, c) : j <= i

UpperChars == "ABCDEFGHIJKLMNOPQRSTUVWXYZ"
LowerChars == "abcdefghijklmnopqrstuvwxyz"

RECURSIVE Lower(_)
\* s.lower()
Lower(s) ==
    IF s = "" THEN ""
    ELSE LET c == SubSeq(s, 1, 1)
             u == Positions(UpperChars, c)
             l == IF u = {} THEN c
                  ELSE LET i == CHOOSE j \in u : TRUE IN SubSeq(LowerChars, i, i)
         IN  l \o Lower(SubSeq(s, 2, Len(s)))

\* Path(p).name: the final path component.
PathName(p) == SubSeq(p, RFind(p, "/") + 1, Len(p))

\* Path(p).suffix: the last dot-extension of the final component, "" if none.
PathSuffix(p) ==
    LET name == PathName(p)
        i    == RFind(name, ".")
    IN  IF 1 < i /\ i < Len(name) THEN SubSeq(name, i, Len(name)) ELSE ""

(***************************************************************************)
(* File contents.  A text is a sequence of runs [ch, n] (n copies of the   *)
(* character ch) together with bpe, the number of tokens the cl100k_base   *)
(* encoding of tiktoken gives for it.                                      *)
(***************************************************************************)
Whitespace == {" ", "\n", "\t", "\r"}

RECURSIVE RunsLen(_)
RunsLen(runs) == IF runs = <<>> THEN 0 ELSE Head(runs).n + RunsLen(Tail(runs))

\* len(text)
PyLen(text) == RunsLen(text.runs)

\* not text.strip()
StripIsEmpty(text) ==
    \A i \in 1..Len(text.runs) : text.runs[i].n = 0 \/ text.runs[i].ch \in Whitespace

(***************************************************************************)
(* class CodebaseIngestion                                                 *)
(***************************************************************************)
CODE_EXTENSIONS ==
    {".py", ".js", ".ts", ".jsx", ".tsx", ".java", ".cpp", ".c", ".h",
     ".cs", ".php", ".rb", ".go", ".rs", ".swift", ".kt", ".scala",
     ".html", ".css", ".scss", ".vue", ".svelte", ".md", ".yml", ".yaml",
     ".json", ".xml", ".sql", ".sh", ".dockerfile", ".tf"}

SKIP_PATTERNS ==
    {"node_modules", ".git", "__pycache__", ".venv", "venv", "dist",
     "build", ".next", ".nuxt", "target", "bin", "obj", ".idea",
     ".vscode", "coverage", ".pytest_cache", ".mypy_cache",
     "*.lock", "package-lock.json", "yarn.lock", "*.log"}

\* Token ceiling above which a single file is skipped.
MaxFileTokens == 50000

\* The default of the max_tokens argument.
DefaultMaxTokens == 900000

\* An estimator that rounds the quotient up.
count_tokens_Ceil(tiktoken, text) ==
    IF tiktoken THEN text.bpe ELSE (PyLen(text) + 3) \div 4

\* count_tokens(text) for the given value of TIKTOKEN_AVAILABLE.
count_tokens(tiktoken, text) ==
    IF tiktoken THEN text.bpe ELSE PyLen(text) \div 4

language_map ==
    (".py" :> "python") @@ (".js" :> "javascript") @@ (".ts" :> "typescript") @@
    (".jsx" :> "react") @@ (".tsx" :> "react-ts") @@ (".java" :> "java") @@
    (".cpp" :> "cpp") @@ (".c" :> "c") @@ (".h" :> "c-header") @@
    (".cs" :> "csharp") @@ (".php" :> "php") @@ (".rb" :> "ruby") @@
    (".go" :> "go") @@ (".rs" :> "rust") @@ (".swift" :> "swift") @@
    (".kt" :> "kotlin") @@ (".scala" :> "scala") @@ (".html" :> "html") @@
    (".css" :> "css") @@ (".scss" :> "scss") @@ (".vue" :> "vue") @@
    (".svelte" :> "svelte") @@ (".md" :> "markdown") @@ (".yml" :> "yaml") @@
    (".yaml" :> "yaml") @@ (".json" :> "json") @@ (".xml" :> "xml") @@
    (".sql" :> "sql") @@ (".sh" :> "bash") @@ (".dockerfile" :> "docker") @@
    (".tf" :> "terraform")

get_language(file_path) ==
    LET ext == Lower(PathSuffix(file_path))
    IN  IF ext \in DOMAIN language_map THEN language_map[ext] ELSE "unknown"

\* language_weights, in tenths.
language_weights ==
    ("python" :> 12) @@ ("javascript" :> 12) @@ ("typescript" :> 13) @@
    ("java" :> 12) @@ ("cpp" :> 11) @@ ("go" :> 12) @@ ("rust" :> 12) @@
    ("css" :> 8) @@ ("html" :> 7) @@ ("json" :> 6) @@ ("yaml" :> 5)

\* score *= language_weights.get(language, 1.0)
LanguageStage(score, language) ==
    DMul(score, Weight[IF language \in DOMAIN language_weights
                       THEN language_weights[language] ELSE 10])

CoreDirs   == {"src/", "lib/", "core/", "app/"}
LowDirs    == {"test/", "tests/", "docs/", "doc/"}
ConfigDirs == {"config/", "configs/", "settings/"}

\* Three independent ifs: every matching category multiplies the score.
DirectoryStage_Independent(score, path) ==
    LET a == IF \E d \in CoreDirs : Contains(d, path) THEN DMul(score, Weight[13]) ELSE score
        b == IF \E d \in LowDirs : Contains(d, path) THEN DMul(a, Weight[7]) ELSE a
    IN  IF \E d \in ConfigDirs : Contains(d, path) THEN DMul(b, Weight[6]) ELSE b

\* The if / elif / elif chain on the directory segments of the path.
DirectoryStage(score, path) ==
    IF \E d \in CoreDirs : Contains(d, path) THEN DMul(score, Weight[13])
    ELSE IF \E d \in LowDirs : Contains(d, path) THEN DMul(score, Weight[7])
    ELSE IF \E d \in ConfigDirs : Contains(d, path) THEN DMul(score, Weight[6])
    ELSE score

\* The if / elif / elif chain on the token count.
SizeStage(score, tokens) ==
    IF tokens < 100 THEN DMul(score, Weight[11])
    ELSE IF tokens > 5000 THEN DMul(score, Weight[8])
    ELSE IF tokens > 10000 THEN DMul(score, Weight[6])
    ELSE score

MainNames == {"main.py", "index.js", "app.py", "server.py", "main.go"}

\* The if / elif on the lower-cased file name.
FilenameStage(score, path) ==
    LET filename == Lower(PathName(path))
    IN  IF filename \in MainNames THEN DMul(score, Weight[15])
        ELSE IF StartsWith(filename, "test_") \/ EndsWith(filename, "_test.py")
             THEN DMul(score, Weight[7])
        ELSE score

calculate_relevance_score(file_info) ==
    FilenameStage(
        SizeStage(
            DirectoryStage(
                LanguageStage(Weight[10], file_info.language),
                file_info.relative_path),
            file_info.tokens),
        file_info.relative_path)

(***************************************************************************)
(* The file system.  An entry of the project directory is a record         *)
(* [path, kind, text, mtime, err], path relative to the root; err names    *)
(* the call that raises OSError for the entry ("none", "open" or "stat").  *)
(* The rglob walk of the directory is a sequence of entries, each given by *)
(* its position in the Catalogue.                                          *)
(***************************************************************************)
\* Largest number of entries in an arbitrary project directory.
MaxFiles == 2

Chars(c, k) == [ch |-> c, n |-> k]
Text(runs, bpe) == [runs |-> runs, bpe |-> bpe]
Entry(path, kind, text, mtime, err) ==
    [path |-> path, kind |-> kind, text |-> text, mtime |-> mtime, err |-> err]

\* The entries a project directory is drawn from.
Catalogue ==
    << Entry("src/app.py",        "file", Text(<<Chars("x", 3200)>>, 800), 11, "none"),
       Entry("tests/test_app.py", "file", Text(<<Chars("x", 3200)>>, 800), 12, "none"),
       Entry("README.md",         "file", Text(<<Chars("#", 1), Chars(" ", 1), Chars("r", 798)>>, 200), 13, "none"),
       Entry("util.py",           "file", Text(<<Chars("u", 1600)>>, 400), 14, "none"),
       Entry("helper.go",         "file", Text(<<Chars("h", 1200)>>, 300), 15, "none"),
       Entry("notes.txt",         "file", Text(<<Chars("n", 400)>>, 100), 16, "none"),
       Entry("src/binary.py",     "file", Text(<<Chars("b", 400)>>, 100), 17, "none"),
       Entry("empty.py",          "file", Text(<<Chars(" ", 8), Chars("\n", 1)>>, 2), 18, "none"),
       Entry("big.js",            "file", Text(<<Chars("j", 200004)>>, 50001), 19, "none"),
       Entry("gen/data.json",     "file", Text(<<Chars("{", 1), Chars("d", 200002)>>, 50000), 20, "none"),
       Entry("tiny.py",           "file", Text(<<Chars("t", 3)>>, 1), 21, "none"),
       Entry("lib/secret.py",     "file", Text(<<Chars("s", 400)>>, 100), 22, "open"),
       Entry("core/io.py",        "file", Text(<<Chars("i", 400)>>, 100), 23, "stat"),
       Entry(".hidden.py",        "file", Text(<<Chars("h", 400)>>, 100), 24, "none"),
       Entry("pkg.py",            "dir",  Text(<<>>, 0), 25, "none"),
       Entry("locked/a.py",       "file", Text(<<Chars("a", 400)>>, 100), 26, "access") >>

RECURSIVE Ascending(_, _)
\* The members of the index set I in increasing order, starting at index i.
Ascending(I, i) ==
    IF i > Len(Catalogue) THEN <<>>
    ELSE (IF i \in I THEN <<i>> ELSE <<>>) \o Ascending(I, i + 1)

RECURSIVE Reverse(_)
Reverse(seq) == IF seq = <<>> THEN <<>> ELSE Reverse(Tail(seq)) \o <<Head(seq)>>

\* The directory holding exactly src/app.py, tests/test_app.py and README.md,
\* listed in any order.
ScenarioWalks ==
    {w \in [1..3 -> 1..3] : {w[1], w[2], w[3]} = 1..3}

\* The walks the directory listing may produce: the order in which the
\* operating system lists entries is not fixed by the program.
Walks ==
    LET sets == {I \in SUBSET (1..Len(Catalogue)) : Cardinality(I) <= MaxFiles}
    IN  {Ascending(I, 1) : I \in sets} \cup {Reverse(Ascending(I, 1)) : I \in sets}
        \cup ScenarioWalks

ProjectRoot == "/work/proj"

\* Python's None, for a slot that holds a string, a document or a dict.
NoneValue == "None"
NoContext == <<>>
NoData == [none |-> TRUE]

RECURSIVE Resolve(_)
\* Path(p).resolve() on an absolute path: "." segments are dropped.
Resolve(p) ==
    IF Contains("/./", p)
    THEN LET i == CHOOSE j \in 1..Len(p) :
                    /\ SubSeq(p, j, j + 2) = "/./"
                    /\ \A k \in 1..(j - 1) : SubSeq(p, k, k + 2) # "/./"
         IN  Resolve(SubSeq(p, 1, i) \o SubSeq(p, i + 3, Len(p)))
    ELSE p

\* Values of the project_path argument; NoneValue when the key is missing.
ProjectPathArgs == {ProjectRoot, "/work/./proj", "/work/nope", NoneValue}

\* The path arguments that name the one directory of the file system.
ExistingPaths == {p \in ProjectPathArgs \ {NoneValue} : Resolve(p) = ProjectRoot}

\* os.path.exists(p)
PathExists(p) == p \in ExistingPaths

(***************************************************************************)
(* scan_codebase                                                           *)
(***************************************************************************)
\* The file_info dict built for one walk entry that passed every filter.
FileInfoOf(tiktoken, root, e) ==
    LET base == [path          |-> root \o "/" \o e.path,
                 relative_path |-> e.path,
                 content       |-> e.text,
                 tokens        |-> count_tokens(tiktoken, e.text),
                 size          |-> PyLen(e.text),
                 modified      |-> e.mtime,
                 language      |-> get_language(root \o "/" \o e.path)]
    IN  [path            |-> base.path,
         relative_path   |-> base.relative_path,
         content         |-> base.content,
         tokens          |-> base.tokens,
         size            |-> base.size,
         modified        |-> base.modified,
         language        |-> base.language,
         relevance_score |-> calculate_relevance_score(base)]

\* The filters without the per-file token ceiling.
Accepted_NoCeiling(tiktoken, e) ==
    /\ e.err # "access"
    /\ e.kind # "dir"
    /\ ~StartsWith(PathName(e.path), ".")
    /\ ~\E pattern \in SKIP_PATTERNS : Contains(pattern, e.path)
    /\ Lower(PathSuffix(e.path)) \in CODE_EXTENSIONS
    /\ e.err # "open"
    /\ ~StripIsEmpty(e.text)
    /\ e.err # "stat"

\* TRUE iff the loop body reaches files_info.append for the entry.
Accepted(tiktoken, e) ==
    /\ e.err # "access"
    /\ e.kind # "dir"
    /\ ~StartsWith(PathName(e.path), ".")
    /\ ~\E pattern \in SKIP_PATTERNS : Contains(pattern, e.path)
    /\ Lower(PathSuffix(e.path)) \in CODE_EXTENSIONS
    /\ e.err # "open"
    /\ ~StripIsEmpty(e.text)
    /\ count_tokens(tiktoken, e.text) <= MaxFileTokens
    /\ e.err # "stat"

\* One pass of the loop body: what the entry adds to files_info.
LoopBody(tiktoken, root, e) ==
    IF Accepted(tiktoken, e) THEN <<FileInfoOf(tiktoken, root, e)>> ELSE <<>>

\* LoopBody under the project root, evaluated once per catalogue entry.
LoopBodyTable ==
    [tiktoken \in BOOLEAN |->
        [i \in 1..Len(Catalogue) |-> LoopBody(tiktoken, ProjectRoot, Catalogue[i])]]

RECURSIVE WalkLoop(_, _, _, _)
\* The rglob loop: files_info in walk order.
WalkLoop(tiktoken, root, walk, i) ==
    IF i > Len(walk) THEN <<>>
    ELSE (IF root = ProjectRoot
          THEN LoopBodyTable[tiktoken][walk[i]]
          ELSE LoopBody(tiktoken, root, Catalogue[walk[i]]))
         \o WalkLoop(tiktoken, root, walk, i + 1)

RECURSIVE InsertAscending(_, _, _)
\* Insert x into the ascending list after every element whose key is not
\* greater (binary insertion keeps equal keys in insertion order).
InsertAscending(sorted, x, i) ==
    IF i > Len(sorted) THEN Append(sorted, x)
    ELSE IF DLess(x.relevance_score, sorted[i].relevance_score)
         THEN SubSeq(sorted, 1, i - 1) \o <<x>> \o SubSeq(sorted, i, Len(sorted))
         ELSE InsertAscending(sorted, x, i + 1)

RECURSIVE SortAscending(_, _, _)
SortAscending(seq, i, acc) ==
    IF i > Len(seq) THEN acc
    ELSE SortAscending(seq, i + 1, InsertAscending(acc, seq[i], 1))

\* An ascending sort reversed afterwards: equal keys end up in reverse order.
SortByRelevance_Unstable(files_info) ==
    Reverse(SortAscending(files_info, 1, <<>>))

\* files_info.sort(key=relevance_score, reverse=True): list.sort reverses
\* the list, sorts it stably in ascending order and reverses the result.
SortByRelevance(files_info) ==
    Reverse(SortAscending(Reverse(files_info), 1, <<>>))

\* The max_tokens argument as decoded from JSON: a number, a string, or
\* absent from the arguments.
Num(n) == [t |-> "int", v |-> n]
StrArg == [t |-> "str", v |-> 0]
Absent == [t |-> "absent", v |-> 0]

RECURSIVE SelectLoop_LateCheck(_, _, _, _, _)
\* A loop that tests the budget before it adds the candidate's tokens.
SelectLoop_LateCheck(files_info, i, selected_files, used_tokens, max_tokens) ==
    IF i > Len(files_info)
    THEN [files |-> selected_files, used |-> used_tokens]
    ELSE IF used_tokens <= max_tokens
         THEN SelectLoop_LateCheck(files_info, i + 1, Append(selected_files, files_info[i]),
                                   used_tokens + files_info[i].tokens, max_tokens)
         ELSE [files |-> selected_files, used |-> used_tokens]

RECURSIVE SelectLoop_SkipAndContinue(_, _, _, _, _)
\* A loop that skips a candidate that does not fit and goes on.
SelectLoop_SkipAndContinue(files_info, i, selected_files, used_tokens, max_tokens) ==
    IF i > Len(files_info)
    THEN [files |-> selected_files, used |-> used_tokens]
    ELSE IF used_tokens + files_info[i].tokens <= max_tokens
         THEN SelectLoop_SkipAndContinue(files_info, i + 1,
                                         Append(selected_files, files_info[i]),
                                         used_tokens + files_info[i].tokens, max_tokens)
         ELSE SelectLoop_SkipAndContinue(files_info, i + 1, selected_files,
                                         used_tokens, max_tokens)

RECURSIVE SelectLoop_Strict(_, _, _, _, _)
\* A loop that accepts a candidate only when it leaves room to spare.
SelectLoop_Strict(files_info, i, selected_files, used_tokens, max_tokens) ==
    IF i > Len(files_info)
    THEN [files |-> selected_files, used |-> used_tokens]
    ELSE IF used_tokens + files_info[i].tokens < max_tokens
         THEN SelectLoop_Strict(files_info, i + 1, Append(selected_files, files_info[i]),
                                used_tokens + files_info[i].tokens, max_tokens)
         ELSE [files |-> selected_files, used |-> used_tokens]

RECURSIVE SelectLoop(_, _, _, _, _)
\* The trimming loop over the sorted list; max_tokens is a number here.
SelectLoop(files_info, i, selected_files, used_tokens, max_tokens) ==
    IF i > Len(files_info)
    THEN [files |-> selected_files, used |-> used_tokens]
    ELSE IF used_tokens + files_info[i].tokens <= max_tokens
         THEN SelectLoop(files_info, i + 1, Append(selected_files, files_info[i]),
                         used_tokens + files_info[i].tokens, max_tokens)
         ELSE [files |-> selected_files, used |-> used_tokens]

\* What scan_codebase raises, "" when it returns.
ScanRaises(tiktoken, walk, project_path, max_tokens) ==
    \* file_path.is_dir() at line 160 is outside the try: a stat refused with
    \* EACCES (an entry in a directory without search permission) raises
    \* PermissionError out of the loop
    IF \E i \in 1..Len(walk) : Catalogue[walk[i]].err = "access"
    THEN "PermissionError"
    \* int <= str raises TypeError at the first comparison of the loop
    ELSE IF max_tokens.t = "str" /\ WalkLoop(tiktoken, Resolve(project_path), walk, 1) # <<>>
    THEN "TypeError" ELSE ""

\* A scan that reports the number of selected files as scanned_files.
ScanOf_CountsSelected(root, found, max_tokens) ==
    LET files_info == SortByRelevance(found)
        sel        == SelectLoop(files_info, 1, <<>>, 0, max_tokens.v)
    IN  [files         |-> sel.files,
         total_tokens  |-> sel.used,
         total_files   |-> Len(sel.files),
         scanned_files |-> Len(sel.files),
         project_path  |-> root]

\* Lines 205-225: the sort, the selection loop and the dict that is returned,
\* for the files_info list the walk has built.
ScanOf(root, found, max_tokens) ==
    LET files_info == SortByRelevance(found)
        sel        == SelectLoop(files_info, 1, <<>>, 0, max_tokens.v)
    IN  [files         |-> sel.files,
         total_tokens  |-> sel.used,
         total_files   |-> Len(sel.files),
         scanned_files |-> Len(files_info),
         project_path  |-> root]

\* The dict scan_codebase returns (when it does not raise).
scan_codebase(tiktoken, walk, project_path, max_tokens) ==
    ScanOf(Resolve(project_path),
           WalkLoop(tiktoken, Resolve(project_path), walk, 1), max_tokens)

(***************************************************************************)
(* class ContextManager                                                    *)
(***************************************************************************)
\* Number of files listed in the file tree.
TreeLimit == 20

RECURSIVE Thousands(_)
\* format(n, ',') for n >= 0: the groups of three digits, most significant first.
Thousands(n) ==
    IF n < 1000 THEN <<n>> ELSE Thousands(n \div 1000) \o <<n % 1000>>

RECURSIVE TreeLines(_, _)
TreeLines(files, i) ==
    IF i > Len(files) \/ i > TreeLimit THEN <<>>
    ELSE <<[kind          |-> "tree",
            relative_path |-> files[i].relative_path,
            language      |-> files[i].language,
            tokens        |-> files[i].tokens,
            score         |-> Fmt2(files[i].relevance_score)]>>
         \o TreeLines(files, i + 1)

RECURSIVE ContentBlocks_TreeLimited(_, _)
\* The contents section cut at the length of the file tree.
ContentBlocks_TreeLimited(files, i) ==
    IF i > Len(files) \/ i > TreeLimit THEN <<>>
    ELSE <<[kind          |-> "content",
            relative_path |-> files[i].relative_path,
            language      |-> files[i].language,
            content       |-> files[i].content]>>
         \o ContentBlocks_TreeLimited(files, i + 1)

RECURSIVE ContentBlocks(_, _)
ContentBlocks(files, i) ==
    IF i > Len(files) THEN <<>>
    ELSE <<[kind          |-> "content",
            relative_path |-> files[i].relative_path,
            language      |-> files[i].language,
            content       |-> files[i].content]>>
         \o ContentBlocks(files, i + 1)

\* The context document as its sequence of blocks.
create_codebase_context(codebase_data) ==
    <<[kind          |-> "header",
       path          |-> codebase_data.project_path,
       total_files   |-> codebase_data.total_files,
       scanned_files |-> codebase_data.scanned_files,
       total_tokens  |-> Thousands(codebase_data.total_tokens)],
      [kind |-> "tree_title"]>>
    \o TreeLines(codebase_data.files, 1)
    \o (IF Len(codebase_data.files) > TreeLimit
        THEN <<[kind |-> "more", count |-> Len(codebase_data.files) - TreeLimit]>>
        ELSE <<>>)
    \o <<[kind |-> "contents_title"]>>
    \o ContentBlocks(codebase_data.files, 1)
    \o <<[kind |-> "footer"]>>

(***************************************************************************)
(* The server: module globals and handle_tool_call.                        *)
(***************************************************************************)
VARIABLES
    TIKTOKEN_AVAILABLE,        \* set at import time
    disk,                      \* the walk of the project directory
    current_codebase_context,  \* global, None (the empty sequence) or the context document
    current_project_path,      \* global, None or the project_path argument
    current_codebase_data,     \* global, None or the scan_codebase dict
    response,                  \* what handle_tool_call returned last
    scan_called,               \* history: the last request entered scan_codebase
    last_loaded,               \* history: the arguments of the last load_codebase
                               \* that was answered as loaded
    call,                      \* a direct call of a static method and its result
    main                       \* the frame of main(): the line read last, the local
                               \* request_id, what was written to stdout for that
                               \* line, the number of lines read, and whether the
                               \* loop is still running

vars == <<TIKTOKEN_AVAILABLE, disk, current_codebase_context, current_project_path,
          current_codebase_data, response, scan_called, last_loaded, call, main>>

session == <<current_codebase_context, current_project_path, current_codebase_data>>

\* Values of the max_tokens argument.
MaxTokensArgs == {Absent, StrArg, Num(-1), Num(0), Num(1000)}

AnalysisTools ==
    {"analyze_architecture", "semantic_search", "suggest_improvements",
     "explain_codeflow", "codebase_summary", "ask_with_context"}

NoCall == [fn |-> "none", arg |-> NoData, result |-> NoData]

\* request_id before the first assignment at line 608: not in locals().
Unbound == "<unbound>"

\* The params member of a request: absent (main substitutes {}), a JSON
\* value that is not an object, or an object with the tool name and the
\* arguments.
NoParams ==
    [t |-> "absent", name |-> NoneValue, project_path |-> NoneValue, max_tokens |-> Absent]
NotADict ==
    [t |-> "nondict", name |-> NoneValue, project_path |-> NoneValue, max_tokens |-> Absent]
ToolParams(name, project_path, max_tokens) ==
    [t |-> "dict", name |-> name, project_path |-> project_path, max_tokens |-> max_tokens]

\* A line of standard input by what json.loads makes of it: "text" does not
\* parse, "value" parses to something that is not an object (a list, a
\* number, a string, null), "object" parses to a dict with these members
\* (id is None when the member is missing).
Line(kind, method, id, params) ==
    [kind |-> kind, method |-> method, id |-> id, params |-> params]

NoLine == Line("none", NoneValue, NoneValue, NoParams)
EndOfInput == Line("eof", NoneValue, NoneValue, NoParams)

\* main() before the first readline.
MainStart ==
    [line |-> NoLine, request_id |-> Unbound, sent |-> <<>>, reads |-> 0, running |-> TRUE]

Result(text) == [kind |-> "result", text |-> text]
Error(message) == [kind |-> "error", text |-> message]

Init ==
    /\ TIKTOKEN_AVAILABLE \in BOOLEAN
    /\ disk \in Walks
    /\ current_codebase_context = NoContext
    /\ current_project_path = NoneValue
    /\ current_codebase_data = NoData
    /\ response = [kind |-> "none", text |-> ""]
    /\ scan_called = FALSE
    /\ last_loaded = NoData
    /\ call = NoCall
    /\ main = MainStart

\* arguments.get("max_tokens", 900000)
MaxTokensOf(arg) == IF arg.t = "absent" THEN Num(DefaultMaxTokens) ELSE arg

\* The handler returns resp and assigns none of the globals.
Answer(resp, scanned) ==
    /\ response' = resp
    /\ scan_called' = scanned
    /\ UNCHANGED <<session, last_loaded>>

\* Lines 449-451 and the success result: the three globals are assigned from
\* one scan and the handler reports the load.
Replace(project_path, max_tokens, codebase_data) ==
    /\ current_codebase_context' = create_codebase_context(codebase_data)
    /\ current_project_path' = project_path
    /\ current_codebase_data' = codebase_data
    /\ response' = Result("loaded")
    /\ scan_called' = TRUE
    /\ last_loaded' = [project_path |-> project_path, max_tokens |-> max_tokens]

\* A handler that drops the session when the path does not exist.
LoadCodebase_ResetOnMissing(project_path, max_tokens_arg, memory_error) ==
    LET max_tokens    == MaxTokensOf(max_tokens_arg)
        raised        == ScanRaises(TIKTOKEN_AVAILABLE, disk, project_path, max_tokens)
        codebase_data == scan_codebase(TIKTOKEN_AVAILABLE, disk, project_path, max_tokens)
    IN  /\ UNCHANGED <<TIKTOKEN_AVAILABLE, disk, call>>
        /\ IF project_path = NoneValue THEN Answer(Error("TypeError"), FALSE)
           ELSE IF ~PathExists(project_path)
           THEN /\ response' = Result("path does not exist")
                /\ scan_called' = FALSE
                /\ current_codebase_context' = NoContext
                /\ current_project_path' = NoneValue
                /\ current_codebase_data' = NoData
                /\ last_loaded' = NoData
           ELSE IF raised # "" THEN Answer(Error(raised), TRUE)
           ELSE IF memory_error THEN Answer(Error("MemoryError"), TRUE)
           ELSE Replace(project_path, max_tokens, codebase_data)

\* A handler that assigns the path and the scan result before it builds the
\* context document.
LoadCodebase_EarlyAssign(project_path, max_tokens_arg, memory_error) ==
    LET max_tokens    == MaxTokensOf(max_tokens_arg)
        raised        == ScanRaises(TIKTOKEN_AVAILABLE, disk, project_path, max_tokens)
        codebase_data == scan_codebase(TIKTOKEN_AVAILABLE, disk, project_path, max_tokens)
    IN  /\ UNCHANGED <<TIKTOKEN_AVAILABLE, disk, call>>
        /\ IF project_path = NoneValue THEN Answer(Error("TypeError"), FALSE)
           ELSE IF ~PathExists(project_path)
           THEN Answer(Result("path does not exist"), FALSE)
           ELSE IF raised # "" THEN Answer(Error(raised), TRUE)
           ELSE IF memory_error
           THEN /\ current_project_path' = project_path
                /\ current_codebase_data' = codebase_data
                /\ response' = Error("MemoryError")
                /\ scan_called' = TRUE
                /\ UNCHANGED <<current_codebase_context, last_loaded>>
           ELSE Replace(project_path, max_tokens, codebase_data)

\* handle_tool_call with name = "load_codebase".  memory_error says whether
\* building the context string runs out of memory (the one way
\* create_codebase_context can raise).
LoadCodebase(project_path, max_tokens_arg, memory_error) ==
    LET max_tokens    == MaxTokensOf(max_tokens_arg)
        raised        == ScanRaises(TIKTOKEN_AVAILABLE, disk, project_path, max_tokens)
        codebase_data == scan_codebase(TIKTOKEN_AVAILABLE, disk, project_path, max_tokens)
    IN  /\ UNCHANGED <<TIKTOKEN_AVAILABLE, disk, call>>
        /\ IF project_path = NoneValue
           THEN \* os.path.exists(None) raises TypeError
                Answer(Error("TypeError"), FALSE)
           ELSE IF ~PathExists(project_path)
           THEN Answer(Result("path does not exist"), FALSE)
           ELSE IF raised # "" THEN Answer(Error(raised), TRUE)
           ELSE IF memory_error THEN Answer(Error("MemoryError"), TRUE)
           ELSE Replace(project_path, max_tokens, codebase_data)

\* handle_tool_call with one of the analysis tools; call_gemini_with_context
\* returns a text whether the generation call succeeds or raises.
AnalysisCall(tool_name) ==
    /\ tool_name \in AnalysisTools
    /\ response' = IF current_codebase_context = NoContext
                   THEN Result("no codebase loaded")
                   ELSE Result("gemini text")
    /\ scan_called' = FALSE
    /\ UNCHANGED <<TIKTOKEN_AVAILABLE, disk, session, last_loaded, call>>

\* handle_tool_call with any other tool name: ValueError, reported as an error.
UnknownTool ==
    /\ response' = Error("Unknown tool")
    /\ scan_called' = FALSE
    /\ UNCHANGED <<TIKTOKEN_AVAILABLE, disk, session, last_loaded, call>>

Load ==
    \E p \in ProjectPathArgs, m \in MaxTokensArgs, oom \in BOOLEAN :
        LoadCodebase(p, m, oom) /\ UNCHANGED main
Analyse == \E t \in AnalysisTools : AnalysisCall(t) /\ UNCHANGED main
Unknown == UnknownTool /\ UNCHANGED main

Next == Load \/ Analyse \/ Unknown

Spec == Init /\ [][Next]_vars

(***************************************************************************)
(* main(): the loop over the lines of standard input.                      *)
(***************************************************************************)
\* Largest number of lines read before the end of input.
MaxLines == 3

\* The id members of the requests; None when a request has no id.
RequestIds == {"a", "b", NoneValue}

\* The params of the tools/call requests.
CallParams ==
    {NoParams, NotADict,
     ToolParams("load_codebase", ProjectRoot, Absent),
     ToolParams("load_codebase", "/work/nope", Absent),
     ToolParams("codebase_summary", NoneValue, Absent),
     ToolParams("no_such_tool", NoneValue, Absent)}

InputLines ==
    {Line("text", NoneValue, NoneValue, NoParams),
     Line("value", NoneValue, NoneValue, NoParams)}
    \cup {Line("object", method, id, NoParams) :
             method \in {"initialize", "tools/list", "resources/list"}, id \in RequestIds}
    \cup {Line("object", "tools/call", id, params) : id \in RequestIds, params \in CallParams}

\* The response written by send_response: its id and whether it carries a
\* result or an error.
Envelope(id, kind) == [id |-> id, kind |-> kind]

\* The frame after an iteration that read the line, wrote the responses and
\* left the local request_id at the value.
Iterated(line, responses, request_id) ==
    main' = [line |-> line, request_id |-> request_id, sent |-> responses,
             reads |-> main.reads + 1, running |-> TRUE]

\* The iteration calls no tool handler.
NoToolCall ==
    UNCHANGED <<TIKTOKEN_AVAILABLE, disk, session, response, scan_called, last_loaded, call>>

\* handle_tool_call(request_id, params) for params that are a dict: the
\* branch is chosen by params.get("name").
handle_tool_call(params, memory_error) ==
    IF params.name = "load_codebase"
    THEN LoadCodebase(params.project_path, params.max_tokens, memory_error)
    ELSE IF params.name \in AnalysisTools THEN AnalysisCall(params.name)
    ELSE UnknownTool

\* One iteration of the while loop that reads a line.
MainIteration(line, memory_error) ==
    /\ main.running
    /\ main.reads < MaxLines
    /\ IF line.kind = "text"
       THEN \* json.JSONDecodeError: continue
            Iterated(line, <<>>, main.request_id) /\ NoToolCall
       ELSE IF line.kind = "value"
       THEN \* request.get raises AttributeError before request_id is assigned;
            \* the handler of Exception answers with the request_id found in
            \* locals(), if there is one
            /\ Iterated(line,
                        IF main.request_id = Unbound THEN <<>>
                        ELSE <<Envelope(main.request_id, "error")>>,
                        main.request_id)
            /\ NoToolCall
       ELSE IF line.method \in {"initialize", "tools/list"}
       THEN Iterated(line, <<Envelope(line.id, "result")>>, line.id) /\ NoToolCall
       ELSE IF line.method # "tools/call"
       THEN \* -32601 Method not found
            Iterated(line, <<Envelope(line.id, "error")>>, line.id) /\ NoToolCall
       ELSE IF line.params.t = "nondict"
       THEN \* params.get at line 436 raises outside the try of handle_tool_call;
            \* main answers -32603 with the request_id assigned at line 608
            Iterated(line, <<Envelope(line.id, "error")>>, line.id) /\ NoToolCall
       ELSE /\ handle_tool_call(line.params, memory_error)
            /\ Iterated(line, <<Envelope(line.id, response'.kind)>>, line.id)

\* readline returns the empty string: break.
EndOfFile ==
    /\ main.running
    /\ main' = [main EXCEPT !.line = EndOfInput, !.sent = <<>>, !.running = FALSE]
    /\ NoToolCall

ReadLine == \E line \in InputLines, oom \in BOOLEAN : MainIteration(line, oom)

InitMain ==
    /\ Init
    /\ disk \in {<<>>, <<1, 2, 3>>}

NextMain == ReadLine \/ EndOfFile

SpecMain == InitMain /\ [][NextMain]_vars

(***************************************************************************)
(* The static methods called on their own, as a unit test calls them.      *)
(***************************************************************************)
\* Longest text handed to count_tokens directly.
MaxTextLen == 40

\* Largest tokenizer answer recorded for such a text.
MaxBpe == 2

\* Relative paths handed to calculate_relevance_score directly.
ScorePaths ==
    {"src/app.py", "tests/test_app.py", "README.md", "main.go",
     "src/tests/test_x.py", "tests/config/y.ts", "config/app/z.json",
     "docs/settings/guide.md", "settings/prod.yml", "contest/run.cpp",
     "lib/docs/config/style.css", "pkg/util_test.py"}

\* Token counts handed to calculate_relevance_score directly.
ScoreTokens == {0, 99, 100, 101, 4999, 5000, 5001, 10000, 10001, MaxFileTokens}

IdleServer ==
    /\ disk = <<>>
    /\ current_codebase_context = NoContext
    /\ current_project_path = NoneValue
    /\ current_codebase_data = NoData
    /\ response = [kind |-> "none", text |-> ""]
    /\ scan_called = FALSE
    /\ last_loaded = NoData
    /\ main = MainStart

ServerUnchanged ==
    UNCHANGED <<TIKTOKEN_AVAILABLE, disk, session, response, scan_called, last_loaded, main>>

\* CodebaseIngestion.count_tokens(text)
CountTokensCall(text) ==
    /\ call' = [fn |-> "count_tokens", arg |-> text,
                result |-> count_tokens(TIKTOKEN_AVAILABLE, text)]
    /\ ServerUnchanged

\* CodebaseIngestion.calculate_relevance_score(file_info, root) on a file_info
\* built as scan_codebase builds it.
ScoreCall(path, tokens) ==
    LET file_info == [relative_path |-> path,
                      language      |-> get_language(ProjectRoot \o "/" \o path),
                      tokens        |-> tokens]
    IN  /\ call' = [fn |-> "calculate_relevance_score", arg |-> file_info,
                    result |-> calculate_relevance_score(file_info)]
        /\ ServerUnchanged

InitCalls ==
    /\ TIKTOKEN_AVAILABLE \in BOOLEAN
    /\ IdleServer
    /\ call = NoCall

NextTokens ==
    \E n \in 0..MaxTextLen, b \in 0..MaxBpe : CountTokensCall(Text(<<Chars("a", n)>>, b))

NextScore == \E path \in ScorePaths, tokens \in ScoreTokens : ScoreCall(path, tokens)

SpecTokens == InitCalls /\ [][NextTokens]_vars

SpecScore == InitCalls /\ [][NextScore]_vars

(***************************************************************************)
(* create_codebase_context called on the scan of a large directory.        *)
(***************************************************************************)
\* Largest number of entries in the large directory.
MaxDir == 23

\* The i-th entry of the large directory: a short file in the project root
\* whose extension cycles through three languages.
LargeDirEntry(i) ==
    Entry(SubSeq(LowerChars, i, i)
            \o (IF i % 3 = 0 THEN ".py" ELSE IF i % 3 = 1 THEN ".md" ELSE ".json"),
          "file", Text(<<Chars("x", 4 * i)>>, i + 1), 100 + i, "none")

\* LoopBody under the project root, evaluated once per entry.
LargeDirTable ==
    [tiktoken \in BOOLEAN |->
        [i \in 1..(MaxDir + 1) |-> LoopBody(tiktoken, ProjectRoot, LargeDirEntry(i))]]

RECURSIVE LargeDirLoop(_, _, _)
\* The rglob loop over the first d entries of the large directory.
LargeDirLoop(tiktoken, d, i) ==
    IF i > d THEN <<>>
    ELSE LargeDirTable[tiktoken][i] \o LargeDirLoop(tiktoken, d, i + 1)

\* Budgets the large directory is scanned with.
ContextBudgets == {Num(DefaultMaxTokens), Num(250), Num(200), Num(100), Num(50)}

\* ContextManager.create_codebase_context(codebase_data) on the dict
\* scan_codebase returns for the first d entries of the large directory,
\* listed by the operating system in one order or the opposite one.
ContextCall(d, backwards, max_tokens) ==
    LET found         == LargeDirLoop(TIKTOKEN_AVAILABLE, d, 1)
        codebase_data == ScanOf(ProjectRoot,
                                IF backwards THEN Reverse(found) ELSE found, max_tokens)
    IN  /\ call' = [fn |-> "create_codebase_context", arg |-> codebase_data,
                    result |-> create_codebase_context(codebase_data)]
        /\ ServerUnchanged

NextContext ==
    \E d \in 0..MaxDir, backwards \in BOOLEAN, m \in ContextBudgets :
        ContextCall(d, backwards, m)

SpecContext == InitCalls /\ [][NextContext]_vars

(***************************************************************************)
(* Properties.                                                             *)
(***************************************************************************)
\* A load_codebase has been answered as loaded.
Loaded == last_loaded # NoData

\* The candidates of the loaded scan in relevance order (files_info after
\* the sort).
Ordered == SortByRelevance(WalkLoop(TIKTOKEN_AVAILABLE, ProjectRoot, disk, 1))

RECURSIVE PrefixTokens(_, _)
\* Sum of the token counts of the first k files.
PrefixTokens(files, k) ==
    IF k = 0 THEN 0 ELSE files[k].tokens + PrefixTokens(files, k - 1)

\* Position in the directory walk of the entry with the relative path.
WalkPosition(relative_path) ==
    CHOOSE i \in 1..Len(disk) : Catalogue[disk[i]].path = relative_path

\* The directory is the one of the concrete scenario and was loaded with
\* max_tokens = 1000.
ScenarioLoaded ==
    /\ Loaded
    /\ disk \in ScenarioWalks
    /\ last_loaded.max_tokens = Num(1000)

\* C1 (as stated): for every scan, whatever max_tokens is passed in, the
\* returned total_tokens is the token sum of the returned files and is at
\* most max_tokens.
C1_BudgetInvariant ==
    (Loaded /\ last_loaded.max_tokens.t = "int") =>
        /\ current_codebase_data.total_tokens
             = PrefixTokens(current_codebase_data.files, Len(current_codebase_data.files))
        /\ current_codebase_data.total_tokens <= last_loaded.max_tokens.v

\* C1 (amended): for every scan with max_tokens >= 0, the returned
\* total_tokens is the token sum of the returned files and is at most
\* max_tokens.
C1_BudgetInvariantNonNegative ==
    (Loaded /\ last_loaded.max_tokens.t = "int" /\ last_loaded.max_tokens.v >= 0) =>
        /\ current_codebase_data.total_tokens
             = PrefixTokens(current_codebase_data.files, Len(current_codebase_data.files))
        /\ current_codebase_data.total_tokens <= last_loaded.max_tokens.v

\* A scan that filled the budget to the last token and left a candidate out.
C1_Witness ==
    /\ Loaded
    /\ last_loaded.max_tokens = Num(1000)
    /\ current_codebase_data.total_tokens = 1000
    /\ current_codebase_data.scanned_files > current_codebase_data.total_files

C3_ScenarioOneFile ==
    ScenarioLoaded =>
        /\ Ordered[1].relative_path = "src/app.py"
        /\ current_codebase_data.total_files = 1
        /\ Len(current_codebase_data.files) = 1
        /\ current_codebase_data.total_tokens = 800
        /\ current_codebase_data.scanned_files = 3

\* C3 (amended): in the scenario directory with max_tokens = 1000,
\* src/app.py ranks first and exactly two files are selected, src/app.py
\* then README.md, with total_tokens = 1000 and scanned_files = 3.
C3_ScenarioTwoFiles ==
    ScenarioLoaded =>
        /\ Ordered[1].relative_path = "src/app.py"
        /\ current_codebase_data.total_files = 2
        /\ Len(current_codebase_data.files) = 2
        /\ current_codebase_data.files[1].relative_path = "src/app.py"
        /\ current_codebase_data.files[2].relative_path = "README.md"
        /\ current_codebase_data.total_tokens = 1000
        /\ current_codebase_data.scanned_files = 3

\* The scenario directory, listed with the test file first, has been loaded.
C3_Witness ==
    /\ ScenarioLoaded
    /\ Catalogue[disk[1]].path = "tests/test_app.py"
    /\ response = Result("loaded")

\* C4: a load_codebase whose project_path does not exist is answered with
\* the path error, does not enter scan_codebase and changes no session slot.
C4_MissingPath ==
    [][\A p \in ProjectPathArgs \ (ExistingPaths \cup {NoneValue}),
          m \in MaxTokensArgs, oom \in BOOLEAN :
          LoadCodebase(p, m, oom) =>
              /\ response' = Result("path does not exist")
              /\ ~scan_called'
              /\ session' = session]_vars

\* The path error was returned while a session was loaded.
C4_Witness ==
    /\ response = Result("path does not exist")
    /\ ~scan_called
    /\ current_codebase_data # NoData
    /\ current_codebase_data.total_files > 0

\* C5: the session is empty until a load is answered as loaded; afterwards
\* its three slots are the path argument, the scan result and the document
\* built from that result of the most recent such load.
C5_SessionReplacement ==
    IF ~Loaded
    THEN session = <<NoContext, NoneValue, NoData>>
    ELSE LET scan == scan_codebase(TIKTOKEN_AVAILABLE, disk,
                                   last_loaded.project_path, last_loaded.max_tokens)
         IN  /\ current_codebase_data = scan
             /\ current_codebase_context = create_codebase_context(scan)
             /\ current_project_path = last_loaded.project_path

\* A load failed inside the scan or the serialization after an earlier
\* load had put files into the session.
C5_Witness ==
    /\ Loaded
    /\ current_codebase_data.total_files > 0
    /\ response.kind = "error"
    /\ scan_called

\* C6: the returned files are in non-increasing relevance_score order and
\* files of equal score are in directory-walk order.
C6_Ordering ==
    Loaded =>
        LET files == current_codebase_data.files
        IN  \A i, j \in 1..Len(files) :
                i < j =>
                    /\ ~DLess(files[i].relevance_score, files[j].relevance_score)
                    /\ files[i].relevance_score = files[j].relevance_score
                         => WalkPosition(files[i].relative_path)
                                < WalkPosition(files[j].relative_path)

\* util.py and helper.go have equal scores; a walk that lists helper.go
\* first was loaded and both files were returned.
C6_Witness ==
    /\ Loaded
    /\ Len(current_codebase_data.files) >= 2
    /\ \E i \in 1..(Len(current_codebase_data.files) - 1) :
          /\ current_codebase_data.files[i].relevance_score
               = current_codebase_data.files[i + 1].relevance_score
          /\ current_codebase_data.files[i].relative_path = "helper.go"
          /\ current_codebase_data.files[i + 1].relative_path = "util.py"

\* The four filters of the claim on a relative path, its content and its
\* token count.
PassesFilters(relative_path, content, tokens) ==
    /\ Lower(PathSuffix(relative_path)) \in CODE_EXTENSIONS
    /\ \A pattern \in SKIP_PATTERNS : ~Contains(pattern, relative_path)
    /\ ~StripIsEmpty(content)
    /\ tokens <= 50000

\* C7: every returned file passes the four filters, and an entry of the
\* directory that fails one of them is neither returned nor counted in
\* scanned_files, whatever the budget.
C7_FilterCompleteness ==
    Loaded =>
        LET files  == current_codebase_data.files
            passes == {i \in 1..Len(disk) :
                          PassesFilters(Catalogue[disk[i]].path, Catalogue[disk[i]].text,
                                        count_tokens(TIKTOKEN_AVAILABLE, Catalogue[disk[i]].text))}
        IN  /\ \A i \in 1..Len(files) :
                   /\ PassesFilters(files[i].relative_path, files[i].content, files[i].tokens)
                   /\ \E j \in passes : Catalogue[disk[j]].path = files[i].relative_path
            /\ \A i \in 1..Len(Ordered) :
                   \E j \in passes : Catalogue[disk[j]].path = Ordered[i].relative_path
            /\ current_codebase_data.scanned_files = Len(Ordered)
            /\ current_codebase_data.scanned_files <= Cardinality(passes)

\* A directory with a file over the token ceiling and a file that passes
\* was loaded with the default budget.
C7_Witness ==
    /\ Loaded
    /\ last_loaded.max_tokens = Num(DefaultMaxTokens)
    /\ \E i \in 1..Len(disk) :
          count_tokens(TIKTOKEN_AVAILABLE, Catalogue[disk[i]].text) > 50000
    /\ current_codebase_data.scanned_files = 1
    /\ current_codebase_data.total_files = 1

\* The size multiplier of the claim, in tenths.
ClaimedSizeWeight(t) ==
    IF t < 100 THEN 11
    ELSE IF t > 10000 THEN 6
    ELSE IF t > 5000 THEN 8
    ELSE 10

\* The directory multiplier of the claim, in tenths: the first matching
\* category in the order core, low priority, configuration.
ClaimedDirWeight(path) ==
    IF \E d \in {"src/", "lib/", "core/", "app/"} : Contains(d, path) THEN 13
    ELSE IF \E d \in {"test/", "tests/", "docs/", "doc/"} : Contains(d, path) THEN 7
    ELSE IF \E d \in {"config/", "configs/", "settings/"} : Contains(d, path) THEN 6
    ELSE 10

\* C8: the score of every file carries the size multiplier 1.1 below 100
\* tokens, 0.6 above 10,000, 0.8 above 5,000 up to 10,000, and 1.0 otherwise.
C8_SizeTier ==
    call.fn = "calculate_relevance_score" =>
        call.result =
            FilenameStage(
                DMul(DirectoryStage(LanguageStage(Weight[10], call.arg.language),
                                    call.arg.relative_path),
                     Weight[ClaimedSizeWeight(call.arg.tokens)]),
                call.arg.relative_path)

\* C9 (as stated): without tiktoken, count_tokens(text) is len(text) / 4
\* rounded up, so a non-empty text counts at least one token.
C9_FallbackCeil ==
    (call.fn = "count_tokens" /\ ~TIKTOKEN_AVAILABLE) =>
        /\ 4 * call.result >= PyLen(call.arg)
        /\ 4 * call.result < PyLen(call.arg) + 4
        /\ PyLen(call.arg) > 0 => call.result >= 1

\* C9 (amended): without tiktoken, count_tokens(text) is len(text) / 4
\* rounded down, so a non-empty text of fewer than 4 characters counts 0
\* tokens.
C9_FallbackFloor ==
    (call.fn = "count_tokens" /\ ~TIKTOKEN_AVAILABLE) =>
        /\ 4 * call.result <= PyLen(call.arg)
        /\ 4 * call.result + 4 > PyLen(call.arg)
        /\ PyLen(call.arg) < 4 => call.result = 0

\* The estimator was called on a text of three characters.
C9_Witness ==
    /\ call.fn = "count_tokens"
    /\ ~TIKTOKEN_AVAILABLE
    /\ PyLen(call.arg) = 3
    /\ call.result = 0

\* C10: the score of every file carries exactly one directory multiplier,
\* that of the first matching category in the order core (1.3), low
\* priority (0.7), configuration (0.6), and 1.0 when none matches.
C10_FirstDirectoryCategory ==
    call.fn = "calculate_relevance_score" =>
        /\ call.result =
               FilenameStage(
                   SizeStage(
                       DMul(LanguageStage(Weight[10], call.arg.language),
                            Weight[ClaimedDirWeight(call.arg.relative_path)]),
                       call.arg.tokens),
                   call.arg.relative_path)

\* A path with a low-priority segment and a configuration segment was scored.
C10_Witness ==
    /\ call.fn = "calculate_relevance_score"
    /\ Contains("tests/", call.arg.relative_path)
    /\ Contains("config/", call.arg.relative_path)
    /\ ~\E d \in CoreDirs : Contains(d, call.arg.relative_path)

\* Number of blocks of the kind in the document.
CountKind(doc, kind) == Cardinality({j \in 1..Len(doc) : doc[j].kind = kind})

\* C11: for every scan result with n selected files the document is the
\* header, the tree title, min(n, 20) tree entries for the first selected
\* files in their order, one summary line exactly when n > 20, the contents
\* title, one content block for each of the n files in the same order and
\* each file exactly once, and the footer as the last block.
C11_SerializationStructure ==
    call.fn = "create_codebase_context" =>
        LET files == call.arg.files
            doc   == call.result
            n     == Len(files)
            t     == IF n < 20 THEN n ELSE 20
            m     == IF n > 20 THEN 1 ELSE 0
        IN  /\ Len(doc) = 2 + t + m + 1 + n + 1
            /\ doc[1].kind = "header"
            /\ doc[2].kind = "tree_title"
            /\ CountKind(doc, "tree") = t
            /\ \A i \in 1..t :
                   /\ doc[2 + i].kind = "tree"
                   /\ doc[2 + i].relative_path = files[i].relative_path
            /\ CountKind(doc, "more") = m
            /\ m = 1 => /\ doc[2 + t + 1].kind = "more"
                        /\ doc[2 + t + 1].count = n - 20
            /\ doc[2 + t + m + 1].kind = "contents_title"
            /\ CountKind(doc, "content") = n
            /\ \A i \in 1..n :
                   /\ doc[3 + t + m + i].kind = "content"
                   /\ doc[3 + t + m + i].relative_path = files[i].relative_path
                   /\ Cardinality({j \in 1..Len(doc) :
                                      /\ doc[j].kind = "content"
                                      /\ doc[j].relative_path = files[i].relative_path}) = 1
            /\ CountKind(doc, "footer") = 1
            /\ doc[Len(doc)].kind = "footer"

\* A scan result with more than 20 selected files was serialized, with the
\* summary line in the document.
C11_Witness ==
    /\ call.fn = "create_codebase_context"
    /\ Len(call.arg.files) > TreeLimit
    /\ \E j \in 1..Len(call.result) : call.result[j].kind = "more"

RECURSIVE WithoutFailing(_, _)
\* The walk without the entries whose read or stat fails.
WithoutFailing(walk, i) ==
    IF i > Len(walk) THEN <<>>
    ELSE (IF Catalogue[walk[i]].err = "none" THEN <<walk[i]>> ELSE <<>>)
         \o WithoutFailing(walk, i + 1)

\* C12: a file whose read or stat fails never makes the scan fail, and the
\* scan result is the one of the same directory without the failing files
\* (no record of them, not counted in scanned_files or in total_tokens).
C12_FailureIsolation ==
    /\ scan_called => response # Error("PermissionError")
    /\ Loaded =>
          /\ current_codebase_data
               = scan_codebase(TIKTOKEN_AVAILABLE, WithoutFailing(disk, 1),
                               last_loaded.project_path, last_loaded.max_tokens)
          /\ \A i \in 1..Len(disk) :
                 Catalogue[disk[i]].err # "none" =>
                     \A j \in 1..Len(Ordered) :
                         Ordered[j].relative_path # Catalogue[disk[i]].path

\* The selection loop of the loaded scan left at the break: the candidate
\* after the selected ones did not fit what was left of the budget.
StoppedOnCandidate ==
    LET n == Len(current_codebase_data.files)
    IN  /\ n < Len(Ordered)
        /\ current_codebase_data.total_tokens + Ordered[n + 1].tokens
             > last_loaded.max_tokens.v

\* C13 (as stated): every scan result has scanned_files >= total_files =
\* number of selected files, and scanned_files is greater than the number of
\* selected files exactly when the selection stopped on a candidate that did
\* not fit, which is exactly when the token sum of all candidates exceeds
\* max_tokens.
C13_ScannedVersusSelected ==
    Loaded =>
        LET n == Len(current_codebase_data.files)
        IN  /\ current_codebase_data.scanned_files >= current_codebase_data.total_files
            /\ current_codebase_data.total_files = n
            /\ last_loaded.max_tokens.t = "int" =>
                  /\ current_codebase_data.scanned_files > n <=> StoppedOnCandidate
                  /\ current_codebase_data.scanned_files > n
                       <=> PrefixTokens(Ordered, Len(Ordered)) > last_loaded.max_tokens.v

\* C13 (amended): the same, where the token sum of all candidates decides
\* only when there is at least one candidate.
C13_ScannedVersusSelectedNonEmpty ==
    Loaded =>
        LET n == Len(current_codebase_data.files)
        IN  /\ current_codebase_data.scanned_files >= current_codebase_data.total_files
            /\ current_codebase_data.total_files = n
            /\ last_loaded.max_tokens.t = "int" =>
                  /\ current_codebase_data.scanned_files > n <=> StoppedOnCandidate
                  /\ current_codebase_data.scanned_files > n
                       <=> /\ Len(Ordered) > 0
                           /\ PrefixTokens(Ordered, Len(Ordered))
                                > last_loaded.max_tokens.v

\* A scan selected one file and stopped on the next candidate.
C13_Witness ==
    /\ Loaded
    /\ last_loaded.max_tokens.t = "int"
    /\ Len(current_codebase_data.files) = 1
    /\ current_codebase_data.scanned_files = 2
    /\ StoppedOnCandidate

\* C14: a line that parses as JSON is answered by exactly one response,
\* which carries the id of that line's request (None when the line has no
\* id member), a line that does not parse is answered by nothing, and the
\* loop stops only at the end of input.
C14_RequestResponsePairing ==
    /\ main.line.kind \in {"value", "object"} =>
          /\ Len(main.sent) = 1
          /\ main.sent[1].id = main.line.id
    /\ main.line.kind = "text" => main.sent = <<>>
    /\ ~main.running => main.line = EndOfInput

====
